---- MODULE Spec2Model ----
(***************************************************************************)
(* The POL decoder of opengb (src/opengb/src/loaders/polloader.rs) as a    *)
(* state machine: one action per statement of pol_load_from_file and       *)
(* read_pol_mesh that reads from the byte source or ends the decode.       *)
(*                                                                         *)
(* A 32-bit word (u32, i32 bits, f32 bits) is the pair <<hi, lo>> of its   *)
(* two 16-bit halves, because the model checker's integers are 32-bit      *)
(* signed.  An f32 is kept as its IEEE-754 bit pattern.                    *)
(***************************************************************************)
EXTENDS Integers, Sequences, FiniteSets, TLC

VARIABLES
    file,       \* the bytes of the source, fixed during one decode
    input,      \* the header values the source was laid out from
    pos,        \* the reader's cursor: bytes consumed so far
    pc,         \* the statement the decode is at
    outcome,    \* "running", "Ok", "Err" or "Panic"
    err,        \* the error or panic the decode ended with
    io_failed,  \* whether some read_exact has returned an error
    pol,        \* locals of pol_load_from_file
    node,       \* locals of one iteration of the unknown_data loop
    mesh,       \* locals of read_pol_mesh
    vert,       \* locals of one iteration of the vertex loop
    mat,        \* locals of one iteration of the material_info loop
    at          \* cursor marks: where the current section and records began

vars == <<file, input, pos, pc, outcome, err, io_failed, pol, node, mesh, vert, mat, at>>

(***************************************************************************)
(* Bounds of the checked inputs.                                           *)
(***************************************************************************)
MaxMeshes == 2
MaxNodes == 2
MaxStrLen == 2
MaxVerts == 2
MaxMats == 2
MaxNames == 2
MaxTris == 2

(***************************************************************************)
(* Words.                                                                  *)
(***************************************************************************)
Word(hi, lo) == <<hi, lo>>

Small(n) == <<0, n>>

\* byteorder::ReadBytesExt::read_u32::<LittleEndian> on the 4 bytes bs
U32LE(bs) == <<bs[4] * 256 + bs[3], bs[2] * 256 + bs[1]>>

\* byteorder::ReadBytesExt::read_u16::<LittleEndian> on the 2 bytes bs
U16LE(bs) == bs[2] * 256 + bs[1]

\* read_f32_into::<LittleEndian> on 4*n bytes: n f32 bit patterns
F32IntoLE(bs, n) == [k \in 1..n |-> U32LE(SubSeq(bs, 4 * k - 3, 4 * k))]

\* read_u16_into::<LittleEndian> on 2*n bytes
U16IntoLE(bs, n) == [k \in 1..n |-> U16LE(SubSeq(bs, 2 * k - 1, 2 * k))]

\* i < c for a loop index i (always small) and a u32 bound c
IndexBelow(i, c) == c[1] > 0 \/ i < c[2]

\* c > n for a u32 c and a small constant n
WordAbove(c, n) == c[1] > 0 \/ c[2] > n

(***************************************************************************)
(* VertexComponent and the pure helpers of the loader.                     *)
(***************************************************************************)
RECURSIVE And16(_, _)
\* the bitwise & of two 16-bit halves
And16(a, b) ==
    IF a = 0 \/ b = 0 THEN 0
    ELSE (a % 2) * (b % 2) + 2 * And16(a \div 2, b \div 2)

Position == <<0, 1>>
Unknown2 == <<0, 2>>
Unknown4 == <<0, 4>>
Unknown8 == <<0, 8>>
TexCoord == <<0, 16>>
Unknown20 == <<0, 32>>
Unknown40 == <<0, 64>>
Unknown80 == <<0, 128>>
Unknown100 == <<0, 256>>

\* VertexComponent::has: (self.0 & c.0) != 0
has(self, c) == <<And16(self[1], c[1]), And16(self[2], c[2])>> # <<0, 0>>

\* 4 bytes, not 8, for bit 0x80
calc_vertex_size_Short80(t) ==
    IF t[1] >= 32768
    THEN (t[1] - 32768) * 65536 + t[2]
    ELSE (IF And16(t[2], 1) # 0 THEN 12 ELSE 0)
       + (IF And16(t[2], 2) # 0 THEN 12 ELSE 0)
       + (IF And16(t[2], 4) # 0 THEN 4 ELSE 0)
       + (IF And16(t[2], 8) # 0 THEN 4 ELSE 0)
       + (IF And16(t[2], 16) # 0 THEN 8 ELSE 0)
       + (IF And16(t[2], 32) # 0 THEN 8 ELSE 0)
       + (IF And16(t[2], 64) # 0 THEN 8 ELSE 0)
       + (IF And16(t[2], 128) # 0 THEN 4 ELSE 0)
       + (IF And16(t[2], 256) # 0 THEN 16 ELSE 0)

\* calc_vertex_size(t: i32) -> usize; t < 0 is the sign bit of the word
calc_vertex_size(t) ==
    IF t[1] >= 32768
    THEN (t[1] - 32768) * 65536 + t[2]
    ELSE (IF And16(t[2], 1) # 0 THEN 12 ELSE 0)
       + (IF And16(t[2], 2) # 0 THEN 12 ELSE 0)
       + (IF And16(t[2], 4) # 0 THEN 4 ELSE 0)
       + (IF And16(t[2], 8) # 0 THEN 4 ELSE 0)
       + (IF And16(t[2], 16) # 0 THEN 8 ELSE 0)
       + (IF And16(t[2], 32) # 0 THEN 8 ELSE 0)
       + (IF And16(t[2], 64) # 0 THEN 8 ELSE 0)
       + (IF And16(t[2], 128) # 0 THEN 8 ELSE 0)
       + (IF And16(t[2], 256) # 0 THEN 16 ELSE 0)

(***************************************************************************)
(* f32 on bit patterns: sign is the top bit of hi, the exponent the next   *)
(* 8 bits, the mantissa the remaining 23.                                  *)
(***************************************************************************)
F32IsNaN(x) == x[1] % 32768 >= 32640 /\ (x[1] % 32768 > 32640 \/ x[2] > 0)

F32IsNeg(x) == x[1] >= 32768

F32Mag(x) == <<x[1] % 32768, x[2]>>

F32IsZero(x) == F32Mag(x) = <<0, 0>>

MagLt(a, b) == a[1] < b[1] \/ (a[1] = b[1] /\ a[2] < b[2])

\* a < b on two f32 that are not NaN
F32Lt(a, b) ==
    IF F32IsZero(a) /\ F32IsZero(b) THEN FALSE
    ELSE IF F32IsNeg(a) /\ ~F32IsNeg(b) THEN TRUE
    ELSE IF ~F32IsNeg(a) /\ F32IsNeg(b) THEN FALSE
    ELSE IF F32IsNeg(a) THEN MagLt(F32Mag(b), F32Mag(a))
    ELSE MagLt(F32Mag(a), F32Mag(b))

\* f32::min: the other operand when one is NaN; either when they compare
\* equal (+0.0 and -0.0)
F32Min(a, b) ==
    IF F32IsNaN(a) THEN {b}
    ELSE IF F32IsNaN(b) THEN {a}
    ELSE IF F32Lt(a, b) THEN {a}
    ELSE IF F32Lt(b, a) THEN {b}
    ELSE {a, b}

\* f32::max, likewise
F32Max(a, b) ==
    IF F32IsNaN(a) THEN {b}
    ELSE IF F32IsNaN(b) THEN {a}
    ELSE IF F32Lt(a, b) THEN {b}
    ELSE IF F32Lt(b, a) THEN {a}
    ELSE {a, b}

F32_128 == <<17152, 0>>     \* 128.0 = 0x43000000
F32_0 == <<0, 0>>           \* 0.0

\* .min(128.) alone
ClampUnknownFloat_NoMax(x) == F32Min(x, F32_128)

\* .min(128.).max(0.): the values the expression can yield
ClampUnknownFloat(x) == UNION {F32Max(m, F32_0) : m \in F32Min(x, F32_128)}

(***************************************************************************)
(* Light map names.                                                        *)
(***************************************************************************)
\* name.into_iter().take_while(|&c| c != 0).collect()
TakeWhileNonZero(bs) ==
    LET zs == {i \in 1..Len(bs) : bs[i] = 0}
    IN  IF zs = {} THEN bs
        ELSE SubSeq(bs, 1, (CHOOSE i \in zs : \A j \in zs : i <= j) - 1)

IsCont(b) == b >= 128 /\ b <= 191

RECURSIVE Utf8Valid(_)
\* whether String::from_utf8 accepts the bytes (well-formed UTF-8)
Utf8Valid(bs) ==
    IF bs = <<>> THEN TRUE
    ELSE LET b == bs[1]
             n == Len(bs)
         IN  IF b <= 127 THEN Utf8Valid(Tail(bs))
             ELSE IF b >= 194 /\ b <= 223
             THEN n >= 2 /\ IsCont(bs[2]) /\ Utf8Valid(SubSeq(bs, 3, n))
             ELSE IF b >= 224 /\ b <= 239
             THEN /\ n >= 3
                  /\ IsCont(bs[2])
                  /\ (b = 224 => bs[2] >= 160)
                  /\ (b = 237 => bs[2] <= 159)
                  /\ IsCont(bs[3])
                  /\ Utf8Valid(SubSeq(bs, 4, n))
             ELSE IF b >= 240 /\ b <= 244
             THEN /\ n >= 4
                  /\ IsCont(bs[2])
                  /\ (b = 240 => bs[2] >= 144)
                  /\ (b = 244 => bs[2] <= 143)
                  /\ IsCont(bs[3])
                  /\ IsCont(bs[4])
                  /\ Utf8Valid(SubSeq(bs, 5, n))
             ELSE FALSE

(***************************************************************************)
(* The reader: a cursor over the bytes of the file.                        *)
(***************************************************************************)
Remaining == Len(file) - pos

Take(n) == SubSeq(file, pos + 1, pos + n)

\* read_exact: whether n more bytes can be read
CanRead(n) == n <= Remaining

\* read_vec(reader, size): whether it returns the next size bytes; it fails,
\* as read_exact does, when fewer remain.  The size is a u32; one of 65536 or
\* more exceeds every file checked here.
ReadVecOk(size) == size[1] = 0 /\ CanRead(size[2])

\* the Vec<u8> read_vec(reader, size) returns
ReadVec(size) == Take(size[2])

None == <<>>

Some(x) == <<x>>

\* the read succeeded: the cursor moves on by n bytes
Advance(n, next) ==
    /\ pos' = pos + n
    /\ pc' = next
    /\ UNCHANGED <<file, input, outcome, err, io_failed>>

\* no read happened
Goto(next) ==
    /\ pc' = next
    /\ UNCHANGED <<file, input, pos, outcome, err, io_failed>>

\* `?` on a failed read_exact: the reader has consumed what was left and the
\* io error UnexpectedEof is returned to the caller
Eof ==
    /\ outcome' = "Err"
    /\ err' = "UnexpectedEof"
    /\ pc' = "return"
    /\ pos' = Len(file)
    /\ io_failed' = TRUE
    /\ UNCHANGED <<file, input, pol, node, mesh, vert, mat, at>>

\* panic!(msg), or unwrap() of an Err: the thread unwinds, nothing is returned
Panic(msg) ==
    /\ outcome' = "Panic"
    /\ err' = msg
    /\ pc' = "unwind"
    /\ UNCHANGED <<file, input, pos, io_failed, pol, node, mesh, vert, mat, at>>

Poly == <<80, 79, 76, 89>>

NoNode == [u |-> <<>>, mat |-> <<>>, u2 |-> <<0, 0>>, str_len |-> <<0, 0>>]

NoMesh ==
    [aabb_min |-> <<>>, aabb_max |-> <<>>, vertex_type |-> <<0, 0>>,
     vertex_count |-> <<0, 0>>, size |-> 0, vertices |-> <<>>,
     material_info_count |-> <<0, 0>>, material_info |-> <<>>,
     unknown2 |-> <<0, 0>>, unknown3 |-> <<0, 0>>, unknown4 |-> <<0, 0>>,
     triangle_count |-> <<0, 0>>, triangles |-> <<>>]

NoVert ==
    [position |-> <<>>, unknown2 |-> None, unknown4 |-> None, unknown8 |-> None,
     tex_coord |-> <<>>, unknown20 |-> None, unknown40 |-> None,
     unknown80 |-> None, unknown100 |-> None]

NoMat ==
    [unknown_dw0 |-> <<0, 0>>, unknown_68 |-> <<>>, unknown_float |-> <<0, 0>>,
     light_map_count |-> <<0, 0>>, light_map_names |-> <<>>]

(***************************************************************************)
(* pol_load_from_file                                                      *)
(***************************************************************************)
\* reader.read_exact(&mut magic)?
ReadMagic ==
    /\ pc = "magic"
    /\ IF CanRead(4)
       THEN /\ pol' = [pol EXCEPT !.magic = Take(4)]
            /\ Advance(4, "match_magic")
            /\ UNCHANGED <<node, mesh, vert, mat, at>>
       ELSE Eof

\* match magic { "POLY" => (), _ => panic!(..) }
MatchMagic ==
    /\ pc = "match_magic"
    /\ IF pol.magic = Poly
       THEN Goto("some_flag") /\ UNCHANGED <<pol, node, mesh, vert, mat, at>>
       ELSE Panic("Not a valid pol file")

ReadSomeFlag ==
    /\ pc = "some_flag"
    /\ IF CanRead(4)
       THEN /\ pol' = [pol EXCEPT !.some_flag = U32LE(Take(4))]
            /\ Advance(4, "mesh_count")
            /\ UNCHANGED <<node, mesh, vert, mat, at>>
       ELSE Eof

ReadMeshCount ==
    /\ pc = "mesh_count"
    /\ IF CanRead(4)
       THEN /\ pol' = [pol EXCEPT !.mesh_count = U32LE(Take(4))]
            /\ Advance(4, "geom_node_descs")
            /\ UNCHANGED <<node, mesh, vert, mat, at>>
       ELSE Eof

\* some_flag >= 100
HasUnknownData_FromHundred(some_flag) == WordAbove(some_flag, 99)

\* if some_flag > 100
HasUnknownData(some_flag) == WordAbove(some_flag, 100)

\* for i in 0..mesh_count { read_vec(52); push }, then the test of some_flag
ReadGeomNodeDesc ==
    /\ pc = "geom_node_descs"
    /\ IF IndexBelow(Len(pol.geom_node_descs), pol.mesh_count)
       THEN IF ReadVecOk(Small(52))
            THEN /\ pol' = [pol EXCEPT !.geom_node_descs =
                                Append(@, [unknown |-> ReadVec(Small(52))])]
                 /\ Advance(52, "geom_node_descs")
                 /\ UNCHANGED <<node, mesh, vert, mat, at>>
            ELSE Eof
       ELSE /\ Goto(IF HasUnknownData(pol.some_flag)
                    THEN "unknown_count" ELSE "meshes")
            /\ UNCHANGED <<pol, node, mesh, vert, mat, at>>

\* unknown_count = read_u32()?; if unknown_count > 0 { for .. }
ReadUnknownCount ==
    /\ pc = "unknown_count"
    /\ IF CanRead(4)
       THEN /\ pol' = [pol EXCEPT !.unknown_count = U32LE(Take(4))]
            /\ Advance(4, IF WordAbove(U32LE(Take(4)), 0)
                          THEN "unknown_data" ELSE "meshes")
            /\ UNCHANGED <<node, mesh, vert, mat, at>>
       ELSE Eof

\* the head of for i in 0..unknown_count, and let u = read_vec(32)?
ReadNodeU ==
    /\ pc = "unknown_data"
    /\ IF IndexBelow(Len(pol.unknown_data), pol.unknown_count)
       THEN IF ReadVecOk(Small(32))
            THEN /\ node' = [NoNode EXCEPT !.u = ReadVec(Small(32))]
                 /\ Advance(32, "ud_mat")
                 /\ UNCHANGED <<pol, mesh, vert, mat, at>>
            ELSE Eof
       ELSE Goto("meshes") /\ UNCHANGED <<pol, node, mesh, vert, mat, at>>

\* reader.read_f32_into(mat.floats_mut())?
ReadNodeMat ==
    /\ pc = "ud_mat"
    /\ IF CanRead(64)
       THEN /\ node' = [node EXCEPT !.mat = F32IntoLE(Take(64), 16)]
            /\ Advance(64, "ud_u2")
            /\ UNCHANGED <<pol, mesh, vert, mat, at>>
       ELSE Eof

ReadNodeU2 ==
    /\ pc = "ud_u2"
    /\ IF CanRead(4)
       THEN /\ node' = [node EXCEPT !.u2 = U32LE(Take(4))]
            /\ Advance(4, "ud_str_len")
            /\ UNCHANGED <<pol, mesh, vert, mat, at>>
       ELSE Eof

ReadNodeStrLen ==
    /\ pc = "ud_str_len"
    /\ IF CanRead(4)
       THEN /\ node' = [node EXCEPT !.str_len = U32LE(Take(4))]
            /\ Advance(4, "ud_ddd_str")
            /\ UNCHANGED <<pol, mesh, vert, mat, at>>
       ELSE Eof

\* let ddd_str = read_vec(str_len)?; unknown_data.push(UnknownData {..})
ReadNodeDddStr ==
    /\ pc = "ud_ddd_str"
    /\ IF ReadVecOk(node.str_len)
       THEN /\ pol' = [pol EXCEPT !.unknown_data =
                           Append(@, [unknown |-> node.u, matrix |-> node.mat,
                                      unknown2 |-> node.u2,
                                      ddd_str |-> ReadVec(node.str_len),
                                      str_len |-> node.str_len])]
            /\ Advance(node.str_len[2], "unknown_data")
            /\ UNCHANGED <<node, mesh, vert, mat, at>>
       ELSE Eof

\* the loop index started at 1
MoreMeshes_FromOne == IndexBelow(Len(pol.meshes) + 1, pol.mesh_count)

\* for i in 0..mesh_count: whether another mesh is to be read
MoreMeshes == IndexBelow(Len(pol.meshes), pol.mesh_count)

\* the head of for i in 0..mesh_count { meshes.push(read_pol_mesh()?) } and,
\* past the loop, Ok(PolFile {..})
LoopMeshes ==
    /\ pc = "meshes"
    /\ IF MoreMeshes
       THEN /\ Goto("aabb_min")
            /\ mesh' = NoMesh
            /\ at' = [at EXCEPT !.meshes = IF Len(pol.meshes) = 0 THEN pos ELSE @,
                                !.mesh = pos]
            /\ UNCHANGED <<pol, node, vert, mat>>
       ELSE /\ outcome' = "Ok"
            /\ pc' = "return"
            /\ at' = [at EXCEPT !.meshes = IF Len(pol.meshes) = 0 THEN pos ELSE @]
            /\ UNCHANGED <<file, input, pos, err, io_failed, pol, node, mesh, vert, mat>>

(***************************************************************************)
(* read_pol_mesh                                                           *)
(***************************************************************************)
ReadAabbMin ==
    /\ pc = "aabb_min"
    /\ IF CanRead(12)
       THEN /\ mesh' = [mesh EXCEPT !.aabb_min = F32IntoLE(Take(12), 3)]
            /\ Advance(12, "aabb_max")
            /\ UNCHANGED <<pol, node, vert, mat, at>>
       ELSE Eof

ReadAabbMax ==
    /\ pc = "aabb_max"
    /\ IF CanRead(12)
       THEN /\ mesh' = [mesh EXCEPT !.aabb_max = F32IntoLE(Take(12), 3)]
            /\ Advance(12, "vertex_type")
            /\ UNCHANGED <<pol, node, vert, mat, at>>
       ELSE Eof

\* VertexComponent { 0: reader.read_i32()? as u32 }: the same 32 bits
ReadVertexType ==
    /\ pc = "vertex_type"
    /\ IF CanRead(4)
       THEN /\ mesh' = [mesh EXCEPT !.vertex_type = U32LE(Take(4))]
            /\ Advance(4, "vertex_count")
            /\ UNCHANGED <<pol, node, vert, mat, at>>
       ELSE Eof

\* vertex_count = read_u32()?; size = calc_vertex_size(vertex_type.0 as i32)
ReadVertexCount ==
    /\ pc = "vertex_count"
    /\ IF CanRead(4)
       THEN /\ mesh' = [mesh EXCEPT !.vertex_count = U32LE(Take(4)),
                                    !.size = calc_vertex_size(mesh.vertex_type)]
            /\ Advance(4, "vertices")
            /\ at' = [at EXCEPT !.vsection = pos + 4,
                                !.voffs = Append(@, <<>>)]
            /\ UNCHANGED <<pol, node, vert, mat>>
       ELSE Eof

\* the head of for i in 0..vertex_count and the two mandatory-component
\* checks that open its body
LoopVertices ==
    /\ pc = "vertices"
    /\ IF IndexBelow(Len(mesh.vertices), mesh.vertex_count)
       THEN IF ~has(mesh.vertex_type, Position)
            THEN Panic("no position info")
            ELSE IF ~has(mesh.vertex_type, TexCoord)
            THEN Panic("no texture coord info")
            ELSE /\ Goto("v_position")
                 /\ vert' = NoVert
                 /\ at' = [at EXCEPT !.vertex = pos]
                 /\ UNCHANGED <<pol, node, mesh, mat>>
       ELSE Goto("material_info_count")
            /\ UNCHANGED <<pol, node, mesh, vert, mat, at>>

\* position: x, y, z, each read_f32()?
ReadPosition ==
    /\ pc = "v_position"
    /\ IF CanRead(12)
       THEN /\ vert' = [vert EXCEPT !.position = F32IntoLE(Take(12), 3)]
            /\ Advance(12, "v_unknown2")
            /\ UNCHANGED <<pol, node, mesh, mat, at>>
       ELSE Eof

\* the buffer [0.; n] after a read_exact that found fewer than 4*n bytes: the
\* bytes that were left, then the zeros it was created with
ShortBuffer(n) ==
    F32IntoLE(Take(Remaining) \o [k \in 1..(4 * n - Remaining) |-> 0], n)

\* unknown2: the Result of read_f32_into is dropped (no `?`), so a failed
\* read goes on to Some(arr) and to the next statement
ReadUnknown2 ==
    /\ pc = "v_unknown2"
    /\ IF has(mesh.vertex_type, Unknown2)
       THEN IF CanRead(12)
            THEN /\ vert' = [vert EXCEPT !.unknown2 = Some(F32IntoLE(Take(12), 3))]
                 /\ Advance(12, "v_unknown4")
                 /\ UNCHANGED <<pol, node, mesh, mat, at>>
            ELSE /\ vert' = [vert EXCEPT !.unknown2 = Some(ShortBuffer(3))]
                 /\ pos' = Len(file)
                 /\ io_failed' = TRUE
                 /\ pc' = "v_unknown4"
                 /\ UNCHANGED <<file, input, outcome, err, pol, node, mesh, mat, at>>
       ELSE /\ vert' = [vert EXCEPT !.unknown2 = None]
            /\ Goto("v_unknown4")
            /\ UNCHANGED <<pol, node, mesh, mat, at>>

\* if vertex_type.has(c) { let mut arr = [0.; n]; read_f32_into(&mut arr)?;
\* Some(arr) } else { None }
ReadOptional(label, c, n, slot, next) ==
    /\ pc = label
    /\ IF has(mesh.vertex_type, c)
       THEN IF CanRead(4 * n)
            THEN /\ vert' = [vert EXCEPT ![slot] = Some(F32IntoLE(Take(4 * n), n))]
                 /\ Advance(4 * n, next)
                 /\ UNCHANGED <<pol, node, mesh, mat, at>>
            ELSE Eof
       ELSE /\ vert' = [vert EXCEPT ![slot] = None]
            /\ Goto(next)
            /\ UNCHANGED <<pol, node, mesh, mat, at>>

ReadUnknown4 == ReadOptional("v_unknown4", Unknown4, 1, "unknown4", "v_unknown8")

ReadUnknown8 == ReadOptional("v_unknown8", Unknown8, 1, "unknown8", "v_tex_coord")

\* tex_coord: u, v, each read_f32()?
ReadTexCoord ==
    /\ pc = "v_tex_coord"
    /\ IF CanRead(8)
       THEN /\ vert' = [vert EXCEPT !.tex_coord = F32IntoLE(Take(8), 2)]
            /\ Advance(8, "v_unknown20")
            /\ UNCHANGED <<pol, node, mesh, mat, at>>
       ELSE Eof

ReadUnknown20 == ReadOptional("v_unknown20", Unknown20, 2, "unknown20", "v_unknown40")

ReadUnknown40 == ReadOptional("v_unknown40", Unknown40, 2, "unknown40", "v_unknown80")

\* the block of bit 0x80 stored in the slot of bit 0x40
ReadUnknown80_IntoUnknown40 ==
    ReadOptional("v_unknown80", Unknown80, 2, "unknown40", "v_unknown100")

ReadUnknown80 == ReadOptional("v_unknown80", Unknown80, 2, "unknown80", "v_unknown100")

ReadUnknown100 == ReadOptional("v_unknown100", Unknown100, 4, "unknown100", "v_push")

\* vertices.push(PolVertex {..})
PushVertex ==
    /\ pc = "v_push"
    /\ mesh' = [mesh EXCEPT !.vertices = Append(@, vert)]
    /\ at' = [at EXCEPT !.voffs[Len(at.voffs)] = Append(@, at.vertex)]
    /\ Goto("vertices")
    /\ UNCHANGED <<pol, node, vert, mat>>

ReadMaterialInfoCount ==
    /\ pc = "material_info_count"
    /\ IF CanRead(4)
       THEN /\ mesh' = [mesh EXCEPT !.material_info_count = U32LE(Take(4))]
            /\ Advance(4, "material_info")
            /\ UNCHANGED <<pol, node, vert, mat, at>>
       ELSE Eof

\* the head of for i in 0..material_info_count, and unknown_dw0 = read_u32()?
ReadUnknownDw0 ==
    /\ pc = "material_info"
    /\ IF IndexBelow(Len(mesh.material_info), mesh.material_info_count)
       THEN IF CanRead(4)
            THEN /\ mat' = [NoMat EXCEPT !.unknown_dw0 = U32LE(Take(4))]
                 /\ Advance(4, "mi_unknown_68")
                 /\ UNCHANGED <<pol, node, mesh, vert, at>>
            ELSE Eof
       ELSE Goto("m_unknown2") /\ UNCHANGED <<pol, node, mesh, vert, mat, at>>

ReadUnknown68 ==
    /\ pc = "mi_unknown_68"
    /\ IF ReadVecOk(Small(64))
       THEN /\ mat' = [mat EXCEPT !.unknown_68 = ReadVec(Small(64))]
            /\ Advance(64, "mi_unknown_float")
            /\ UNCHANGED <<pol, node, mesh, vert, at>>
       ELSE Eof

\* unknown_float = read_f32()?.min(128.).max(0.)
ReadUnknownFloat ==
    /\ pc = "mi_unknown_float"
    /\ IF CanRead(4)
       THEN /\ \E r \in ClampUnknownFloat(U32LE(Take(4))) :
                   mat' = [mat EXCEPT !.unknown_float = r]
            /\ at' = [at EXCEPT !.raw_float = U32LE(Take(4))]
            /\ Advance(4, "mi_light_map_count")
            /\ UNCHANGED <<pol, node, mesh, vert>>
       ELSE Eof

ReadLightMapCount ==
    /\ pc = "mi_light_map_count"
    /\ IF CanRead(4)
       THEN /\ mat' = [mat EXCEPT !.light_map_count = U32LE(Take(4))]
            /\ Advance(4, "mi_light_map_names")
            /\ UNCHANGED <<pol, node, mesh, vert, at>>
       ELSE Eof

\* for j in 0..light_map_count { name = read_vec(64)?;
\* name_s = String::from_utf8(take_while(..)).unwrap(); push }, then
\* material_info.push(PolMaterialInfo {..})
ReadLightMapName ==
    /\ pc = "mi_light_map_names"
    /\ IF IndexBelow(Len(mat.light_map_names), mat.light_map_count)
       THEN IF ReadVecOk(Small(64))
            THEN IF Utf8Valid(TakeWhileNonZero(ReadVec(Small(64))))
                 THEN /\ mat' = [mat EXCEPT !.light_map_names =
                                     Append(@, TakeWhileNonZero(ReadVec(Small(64))))]
                      /\ at' = [at EXCEPT !.name = pos]
                      /\ Advance(64, "mi_light_map_names")
                      /\ UNCHANGED <<pol, node, mesh, vert>>
                 ELSE /\ outcome' = "Panic"
                      /\ err' = "FromUtf8Error"
                      /\ pc' = "unwind"
                      /\ pos' = pos + 64
                      /\ at' = [at EXCEPT !.name = pos]
                      /\ UNCHANGED <<file, input, io_failed, pol, node, mesh, vert, mat>>
            ELSE Eof
       ELSE /\ mesh' = [mesh EXCEPT !.material_info = Append(@, mat)]
            /\ Goto("material_info")
            /\ UNCHANGED <<pol, node, vert, mat, at>>

ReadMeshUnknown2 ==
    /\ pc = "m_unknown2"
    /\ IF CanRead(4)
       THEN /\ mesh' = [mesh EXCEPT !.unknown2 = U32LE(Take(4))]
            /\ Advance(4, "m_unknown3")
            /\ UNCHANGED <<pol, node, vert, mat, at>>
       ELSE Eof

ReadMeshUnknown3 ==
    /\ pc = "m_unknown3"
    /\ IF CanRead(4)
       THEN /\ mesh' = [mesh EXCEPT !.unknown3 = U32LE(Take(4))]
            /\ Advance(4, "m_unknown4")
            /\ UNCHANGED <<pol, node, vert, mat, at>>
       ELSE Eof

ReadMeshUnknown4 ==
    /\ pc = "m_unknown4"
    /\ IF CanRead(4)
       THEN /\ mesh' = [mesh EXCEPT !.unknown4 = U32LE(Take(4))]
            /\ Advance(4, "triangle_count")
            /\ UNCHANGED <<pol, node, vert, mat, at>>
       ELSE Eof

ReadTriangleCount ==
    /\ pc = "triangle_count"
    /\ IF CanRead(4)
       THEN /\ mesh' = [mesh EXCEPT !.triangle_count = U32LE(Take(4))]
            /\ Advance(4, "triangles")
            /\ UNCHANGED <<pol, node, vert, mat, at>>
       ELSE Eof

\* a buffer of two indices
IndicesLen_TwoOnly == 1 + 1

\* let mut indices = [0u16; 3]
IndicesLen == 3

\* for i in 0..triangle_count { read_u16_into(&mut indices)?; push }, then
\* Ok(PolMesh {..}), which the caller pushes onto meshes
ReadTriangle ==
    /\ pc = "triangles"
    /\ IF IndexBelow(Len(mesh.triangles), mesh.triangle_count)
       THEN IF CanRead(2 * IndicesLen)
            THEN /\ mesh' = [mesh EXCEPT !.triangles =
                                 Append(@, [indices |->
                                     U16IntoLE(Take(2 * IndicesLen), IndicesLen)])]
                 /\ Advance(2 * IndicesLen, "triangles")
                 /\ UNCHANGED <<pol, node, vert, mat, at>>
            ELSE Eof
       ELSE /\ pol' = [pol EXCEPT !.meshes = Append(@, mesh)]
            /\ Goto("meshes")
            /\ UNCHANGED <<node, mesh, vert, mat, at>>

Next ==
    \/ ReadMagic
    \/ MatchMagic
    \/ ReadSomeFlag
    \/ ReadMeshCount
    \/ ReadGeomNodeDesc
    \/ ReadUnknownCount
    \/ ReadNodeU
    \/ ReadNodeMat
    \/ ReadNodeU2
    \/ ReadNodeStrLen
    \/ ReadNodeDddStr
    \/ LoopMeshes
    \/ ReadAabbMin
    \/ ReadAabbMax
    \/ ReadVertexType
    \/ ReadVertexCount
    \/ LoopVertices
    \/ ReadPosition
    \/ ReadUnknown2
    \/ ReadUnknown4
    \/ ReadUnknown8
    \/ ReadTexCoord
    \/ ReadUnknown20
    \/ ReadUnknown40
    \/ ReadUnknown80
    \/ ReadUnknown100
    \/ PushVertex
    \/ ReadMaterialInfoCount
    \/ ReadUnknownDw0
    \/ ReadUnknown68
    \/ ReadUnknownFloat
    \/ ReadLightMapCount
    \/ ReadLightMapName
    \/ ReadMeshUnknown2
    \/ ReadMeshUnknown3
    \/ ReadMeshUnknown4
    \/ ReadTriangleCount
    \/ ReadTriangle

(***************************************************************************)
(* The inputs: files laid out as the format prescribes from a handful of   *)
(* header values, then cut short (or extended) by input.cut bytes.  Bytes  *)
(* the decoder keeps verbatim hold a pattern that depends on their offset. *)
(***************************************************************************)
Pat(i) == (i * 37 + 5) % 256

Opaque(n) == [i \in 1..n |-> -1]

WordBytes(w) == <<w[2] % 256, w[2] \div 256, w[1] % 256, w[1] \div 256>>

Repeat(s, n) == [i \in 1..(n * Len(s)) |-> s[((i - 1) % Len(s)) + 1]]

Bit(w, k) == (w[2] \div k) % 2 = 1

VertexLayout(mask) ==
    Opaque(12)
    \o (IF Bit(mask, 2) THEN Opaque(12) ELSE <<>>)
    \o (IF Bit(mask, 4) THEN Opaque(4) ELSE <<>>)
    \o (IF Bit(mask, 8) THEN Opaque(4) ELSE <<>>)
    \o Opaque(8)
    \o (IF Bit(mask, 32) THEN Opaque(8) ELSE <<>>)
    \o (IF Bit(mask, 64) THEN Opaque(8) ELSE <<>>)
    \o (IF Bit(mask, 128) THEN Opaque(8) ELSE <<>>)
    \o (IF Bit(mask, 256) THEN Opaque(16) ELSE <<>>)

NameField(name) ==
    IF Len(name) >= 64 THEN SubSeq(name, 1, 64)
    ELSE name \o <<0>> \o Opaque(63 - Len(name))

MaterialLayout(p) ==
    Opaque(4) \o Opaque(64) \o WordBytes(p.fbits) \o WordBytes(Small(p.names))
    \o Repeat(NameField(p.name), p.names)

MeshLayout(p) ==
    Opaque(24) \o WordBytes(p.mask) \o WordBytes(Small(p.verts))
    \o Repeat(VertexLayout(p.mask), p.verts)
    \o WordBytes(Small(p.mats)) \o Repeat(MaterialLayout(p), p.mats)
    \o Opaque(12) \o WordBytes(<<p.tris_hi, p.tris>>) \o Opaque(6 * p.tris)

NodeLayout(p) ==
    Opaque(32) \o Opaque(64) \o Opaque(4) \o WordBytes(Small(p.str_len))
    \o Opaque(p.str_len)

Layout(p) ==
    p.tag \o WordBytes(p.flag) \o WordBytes(Small(p.mesh_count))
    \o Opaque(52 * p.mesh_count)
    \o (IF p.flag[1] > 0 \/ p.flag[2] > 100
        THEN WordBytes(Small(p.nodes)) \o Repeat(NodeLayout(p), p.nodes)
        ELSE <<>>)
    \o Repeat(MeshLayout(p), p.mesh_count)

FileOf(p) ==
    LET raw == Layout(p)
    IN  [i \in 1..(Len(raw) - p.cut) |->
            IF i > Len(raw) \/ raw[i] = -1 THEN Pat(i) ELSE raw[i]]

Base ==
    [tag |-> Poly, flag |-> Small(1), mesh_count |-> 1, nodes |-> 0,
     str_len |-> 0, mask |-> <<0, 17>>, verts |-> 1, mats |-> 1,
     fbits |-> <<17025, 0>>, names |-> 1, name |-> <<97, 98>>, tris |-> 1,
     tris_hi |-> 0, cut |-> 0, need |-> 0]

Tags == {Poly, <<80, 79, 76, 88>>, <<0, 79, 76, 89>>, <<112, 111, 108, 121>>}

Flags == {Small(0), Small(1), Small(100), Small(101), <<1, 0>>}

\* every combination of the nine component bits, and masks with further bits
Masks ==
    {<<0, m>> : m \in 0..511} \cup {<<0, 529>>, <<1, 17>>, <<32768, 17>>, <<32768, 0>>}

\* 200.0, 128.0, the next f32 above 128.0, the f32 below 128.0, 64.5, 0.0,
\* the smallest positive f32, -0.0, -1.0, two NaNs, +inf, -inf
Floats ==
    {<<17224, 0>>, <<17152, 0>>, <<17152, 1>>, <<17151, 65535>>, <<17025, 0>>,
     <<0, 0>>, <<0, 1>>, <<32768, 0>>, <<49024, 0>>, <<32704, 0>>, <<65472, 1>>,
     <<32640, 0>>, <<65408, 0>>}

\* "ab", "", 64 letters without a terminator, a 3-byte character, and byte
\* strings that are not UTF-8
Names ==
    {<<97, 98>>, <<>>, [i \in 1..64 |-> 97], <<228, 184, 173>>, <<97, 0, 255>>,
     <<195, 40>>, <<228, 184>>, <<255>>, <<237, 160, 128>>}

TagInputs == {[Base EXCEPT !.tag = t, !.cut = c] : t \in Tags, c \in {-1, 0, 1}}

HeaderInputs ==
    {[Base EXCEPT !.flag = f, !.mesh_count = m, !.nodes = n, !.str_len = l,
                  !.cut = c] :
        f \in Flags, m \in 0..MaxMeshes, n \in 0..MaxNodes, l \in 0..MaxStrLen,
        c \in {0, 1}}

MaskInputs ==
    {[Base EXCEPT !.mask = k, !.verts = v, !.mats = 0, !.tris = 0, !.cut = c] :
        k \in Masks, v \in 0..MaxVerts, c \in {0, 1}}

FloatInputs ==
    {[Base EXCEPT !.fbits = x, !.mats = m, !.names = 0] :
        x \in Floats, m \in 1..MaxMats}

NameInputs ==
    {[Base EXCEPT !.mats = m, !.names = n, !.name = s, !.tris = t, !.cut = c] :
        m \in 0..MaxMats, n \in 0..MaxNames, s \in Names, t \in 0..MaxTris,
        c \in {0, 1}}

\* a triangle_count of 65536 and more, with only its low half laid out
BigCountInputs == {[Base EXCEPT !.tris_hi = 1, !.tris = t] : t \in 0..MaxTris}

\* every prefix of a few files
Prefixes(p) == {[p EXCEPT !.cut = c] : c \in 0..Len(Layout(p))}

CutInputs ==
    UNION {Prefixes([Base EXCEPT !.mask = <<0, 17 + b>>, !.mats = 0, !.tris = 0]) :
              b \in {0, 2, 4, 8, 32, 64, 128, 256, 494}}
    \cup Prefixes([Base EXCEPT !.flag = Small(101), !.nodes = 1, !.str_len = 2,
                               !.mask = <<0, 511>>])

Inputs ==
    TagInputs \cup HeaderInputs \cup MaskInputs \cup FloatInputs \cup NameInputs
    \cup BigCountInputs \cup CutInputs

Init ==
    /\ \E p \in Inputs :
          /\ input = [p EXCEPT !.need =
                          Len(Layout(p)) + 6 * 65536 * p.tris_hi * p.mesh_count]
          /\ file = FileOf(p)
    /\ pos = 0
    /\ pc = "magic"
    /\ outcome = "running"
    /\ err = ""
    /\ io_failed = FALSE
    /\ pol = [magic |-> <<0, 0, 0, 0>>, some_flag |-> <<0, 0>>,
              mesh_count |-> <<0, 0>>, geom_node_descs |-> <<>>,
              unknown_count |-> <<0, 0>>, unknown_data |-> <<>>, meshes |-> <<>>]
    /\ node = NoNode
    /\ mesh = NoMesh
    /\ vert = NoVert
    /\ mat = NoMat
    /\ at = [meshes |-> -1, mesh |-> -1, vsection |-> -1, vertex |-> -1,
             name |-> -1, raw_float |-> <<0, 0>>, voffs |-> <<>>]

Spec == Init /\ [][Next]_vars

(***************************************************************************)
(* Properties.                                                             *)
(***************************************************************************)
Ended == outcome # "running"

\* every span the header values declare lies within the file
Fits == Len(file) >= input.need

\* the input's meshes have both mandatory components, and its light map
\* names are UTF-8 up to their first zero byte
InputValid ==
    input.mesh_count = 0
    \/ /\ Bit(input.mask, 1)
       /\ Bit(input.mask, 16)
       /\ input.mats = 0 \/ input.names = 0
          \/ Utf8Valid(TakeWhileNonZero(NameField(input.name)))

\* C1, as stated: for every input that begins with POLY the decode returns
\* Ok exactly when every declared count fits in the file, and otherwise
\* fails with the end-of-file error; there is no other outcome.
C1_OkIffCountsFit ==
    (Ended /\ pol.magic = Poly) =>
        /\ (outcome = "Ok") <=> Fits
        /\ outcome = "Ok" \/ (outcome = "Err" /\ err = "UnexpectedEof")

\* C1, amended: the same for the inputs that begin with POLY, whose meshes
\* all have the Position and TexCoord bits in their format mask and whose
\* light map names are all valid text.
C1_OkIffCountsFitOnValidInputs ==
    (Ended /\ pol.magic = Poly /\ InputValid) =>
        /\ (outcome = "Ok") <=> Fits
        /\ outcome = "Ok" \/ (outcome = "Err" /\ err = "UnexpectedEof")

\* a file cut one byte before the end of its final triangle has failed
\* with the end-of-file error at that triangle
C1_Witness ==
    /\ outcome = "Err"
    /\ err = "UnexpectedEof"
    /\ InputValid
    /\ input.cut = 1
    /\ input.mesh_count >= 1
    /\ input.tris >= 1
    /\ Len(pol.meshes) = input.mesh_count - 1
    /\ Len(mesh.triangles) = input.tris - 1
    /\ Small(input.tris) = mesh.triangle_count

\* C2: when the first 4 bytes are not POLY the decode returns the
\* InvalidSignature error value to the caller, with the cursor right after
\* the 4-byte tag.
C2_InvalidSignatureReturned ==
    (pc \notin {"magic", "match_magic"}
     /\ Len(file) >= 4 /\ SubSeq(file, 1, 4) # Poly) =>
        /\ outcome = "Err"
        /\ err = "InvalidSignature"
        /\ pos = 4

\* C3: a mesh whose format mask lacks the Position or the TexCoord bit makes
\* the decode fail with MissingMandatoryAttribute, whatever its other bits
\* and its vertex_count (once the mask and the count are read and the head
\* of the vertex loop is passed); no returned Document holds such a mesh.
C3_MissingMandatoryAttribute ==
    /\ (at.mesh >= 0 /\ Len(file) >= at.mesh + 32
        /\ pc \notin {"aabb_min", "aabb_max", "vertex_type", "vertex_count",
                      "vertices"}
        /\ ~(Bit(mesh.vertex_type, 1) /\ Bit(mesh.vertex_type, 16)))
       => (outcome = "Err" /\ err = "MissingMandatoryAttribute")
    /\ outcome = "Ok" =>
          \A m \in 1..Len(pol.meshes) :
              Bit(pol.meshes[m].vertex_type, 1) /\ Bit(pol.meshes[m].vertex_type, 16)

\* C4: once a read from the source has failed the decode has ended with the
\* error of that read: no statement after the failed read runs.
C4_AbortAtFailedRead == io_failed => (outcome = "Err" /\ pc = "return")

\* the bytes of n f32 at file offset off
FloatsAt(off, n) ==
    [k \in 1..n |-> <<file[off + 4 * k] * 256 + file[off + 4 * k - 1],
                      file[off + 4 * k - 2] * 256 + file[off + 4 * k - 3]>>]

\* what a vertex that starts at offset off holds under format mask k: the
\* blocks packed in the order of the bits, each present iff its bit is set
VertexAt(k, off) ==
    LET o2 == off + 12
        o4 == o2 + (IF Bit(k, 2) THEN 12 ELSE 0)
        o8 == o4 + (IF Bit(k, 4) THEN 4 ELSE 0)
        ot == o8 + (IF Bit(k, 8) THEN 4 ELSE 0)
        o20 == ot + 8
        o40 == o20 + (IF Bit(k, 32) THEN 8 ELSE 0)
        o80 == o40 + (IF Bit(k, 64) THEN 8 ELSE 0)
        o100 == o80 + (IF Bit(k, 128) THEN 8 ELSE 0)
    IN  [position |-> FloatsAt(off, 3),
         unknown2 |-> IF Bit(k, 2) THEN <<FloatsAt(o2, 3)>> ELSE <<>>,
         unknown4 |-> IF Bit(k, 4) THEN <<FloatsAt(o4, 1)>> ELSE <<>>,
         unknown8 |-> IF Bit(k, 8) THEN <<FloatsAt(o8, 1)>> ELSE <<>>,
         tex_coord |-> FloatsAt(ot, 2),
         unknown20 |-> IF Bit(k, 32) THEN <<FloatsAt(o20, 2)>> ELSE <<>>,
         unknown40 |-> IF Bit(k, 64) THEN <<FloatsAt(o40, 2)>> ELSE <<>>,
         unknown80 |-> IF Bit(k, 128) THEN <<FloatsAt(o80, 2)>> ELSE <<>>,
         unknown100 |-> IF Bit(k, 256) THEN <<FloatsAt(o100, 4)>> ELSE <<>>]

\* C5: in every returned Document, each vertex holds each of the seven
\* optional blocks iff the bit of the block is set in its mesh's format mask;
\* an absent block is None and a present one holds the bytes of the source
\* at its place in the packed order.
C5_OptionalBlocksFollowMask ==
    outcome = "Ok" =>
        \A m \in 1..Len(pol.meshes) :
            \A v \in 1..Len(pol.meshes[m].vertices) :
                pol.meshes[m].vertices[v]
                    = VertexAt(pol.meshes[m].vertex_type, at.voffs[m][v])

\* a Document was returned with a vertex that has some optional blocks and
\* lacks others
C5_Witness ==
    /\ outcome = "Ok"
    /\ \E m \in 1..Len(pol.meshes) :
          /\ Len(pol.meshes[m].vertices) >= 2
          /\ pol.meshes[m].vertex_type = <<0, 435>>
          /\ pol.meshes[m].vertices[2].unknown2 # None
          /\ pol.meshes[m].vertices[2].unknown4 = None
          /\ pol.meshes[m].vertices[2].unknown100 # None

FlagAbove100 == pol.some_flag \notin {<<0, k>> : k \in 0..100}

NodeSection == {"unknown_count", "unknown_data", "ud_mat", "ud_u2", "ud_str_len", "ud_ddd_str"}

\* C6: a returned Document has transform nodes iff format_flag > 100 and the
\* count read right after the node descriptors is > 0, and then as many as
\* that count; with format_flag <= 100 no count is read, there are no
\* transform nodes and the meshes start right after the node descriptors.
C6_TransformNodesIffFlagAbove100 ==
    /\ pc \in NodeSection => FlagAbove100
    /\ outcome = "Ok" =>
          LET after == 12 + 52 * Len(pol.geom_node_descs)
          IN  /\ (pol.unknown_data # <<>>)
                    <=> (FlagAbove100 /\ pol.unknown_count # <<0, 0>>)
              /\ pol.unknown_count = <<0, Len(pol.unknown_data)>>
              /\ FlagAbove100 =>
                    pol.unknown_count = U32LE(SubSeq(file, after + 1, after + 4))
              /\ ~FlagAbove100 => (pol.unknown_data = <<>> /\ at.meshes = after)

\* a Document with two transform nodes was returned
C6_Witness ==
    /\ outcome = "Ok"
    /\ pol.some_flag = <<0, 101>>
    /\ Len(pol.unknown_data) >= 2
    /\ Len(pol.meshes) >= 1

\* C7: a returned Document has mesh_count meshes and mesh_count node
\* descriptors; all node descriptors are read before any transform node and
\* any mesh; mesh_count = 0 with format_flag <= 100 gives three empty
\* sequences.
C7_MeshCountMatches ==
    /\ pc \notin {"magic", "match_magic", "some_flag", "mesh_count",
                  "geom_node_descs", "return", "unwind"}
          => pol.mesh_count = <<0, Len(pol.geom_node_descs)>>
    /\ outcome = "Ok" =>
          /\ pol.mesh_count = U32LE(SubSeq(file, 9, 12))
          /\ pol.mesh_count = <<0, Len(pol.meshes)>>
          /\ pol.mesh_count = <<0, Len(pol.geom_node_descs)>>
          /\ \A i \in 1..Len(pol.geom_node_descs) :
                pol.geom_node_descs[i].unknown
                    = SubSeq(file, 12 + 52 * (i - 1) + 1, 12 + 52 * i)
          /\ (pol.mesh_count = <<0, 0>> /\ ~FlagAbove100) =>
                (pol.geom_node_descs = <<>> /\ pol.unknown_data = <<>>
                 /\ pol.meshes = <<>>)

\* a Document with two or more meshes was returned
C7_Witness ==
    /\ outcome = "Ok"
    /\ Len(pol.meshes) >= 2
    /\ Len(pol.geom_node_descs) >= 2
    /\ Len(pol.unknown_data) >= 1

RawIsNaN(x) == x[1] % 32768 >= 32640 /\ ~(x[1] % 32768 = 32640 /\ x[2] = 0)

RawAbove128(x) == ~RawIsNaN(x) /\ x[1] < 32768 /\ (x[1] > 17152 \/ (x[1] = 17152 /\ x[2] > 0))

RawBelow0(x) == ~RawIsNaN(x) /\ (x[1] > 32768 \/ (x[1] = 32768 /\ x[2] > 0))

\* 0 <= x <= 128 on the bits of x (-0.0 is 0)
InClampRange(x) == x[1] < 17152 \/ x = <<17152, 0>> \/ x = <<32768, 0>>

\* C8: every decoded clamp parameter is within [0, 128]: a stored value
\* above 128 decodes to 128, one below 0 to 0, one inside the range to
\* itself, and the decode goes on.
C8_ClampParamInRange ==
    /\ pc = "mi_light_map_count" =>
          /\ outcome = "running"
          /\ InClampRange(mat.unknown_float)
          /\ RawAbove128(at.raw_float) => mat.unknown_float = <<17152, 0>>
          /\ RawBelow0(at.raw_float) => mat.unknown_float \in {<<0, 0>>, <<32768, 0>>}
          /\ (~RawIsNaN(at.raw_float) /\ ~RawAbove128(at.raw_float)
              /\ ~RawBelow0(at.raw_float))
                => \/ mat.unknown_float = at.raw_float
                   \/ {mat.unknown_float, at.raw_float} = {<<0, 0>>, <<32768, 0>>}
    /\ outcome = "Ok" =>
          \A m \in 1..Len(pol.meshes) :
              \A i \in 1..Len(pol.meshes[m].material_info) :
                  InClampRange(pol.meshes[m].material_info[i].unknown_float)

\* a Document was returned whose material stored 200.0 and holds 128.0
C8_Witness ==
    /\ outcome = "Ok"
    /\ at.raw_float = <<17224, 0>>
    /\ Len(pol.meshes) >= 1
    /\ Len(pol.meshes[1].material_info) >= 1
    /\ pol.meshes[1].material_info[1].unknown_float = <<17152, 0>>

\* C9: a light map name is decoded from a 64-byte field as the bytes before
\* its first zero byte; when those bytes are not valid text the decode
\* returns the InvalidText error value to the caller.
C9_InvalidTextReturned ==
    (at.name >= 0 /\ pos = at.name + 64
     /\ pc \in {"mi_light_map_names", "unwind", "return"}) =>
        LET field == SubSeq(file, at.name + 1, at.name + 64)
            text == TakeWhileNonZero(field)
        IN  IF Utf8Valid(text)
            THEN /\ outcome = "running"
                 /\ mat.light_map_names[Len(mat.light_map_names)] = text
            ELSE outcome = "Err" /\ err = "InvalidText"

\* the sum of the widths of the blocks whose bits are set in mask k
WidthSum(k) ==
    (IF Bit(k, 1) THEN 12 ELSE 0) + (IF Bit(k, 2) THEN 12 ELSE 0)
    + (IF Bit(k, 4) THEN 4 ELSE 0) + (IF Bit(k, 8) THEN 4 ELSE 0)
    + (IF Bit(k, 16) THEN 8 ELSE 0) + (IF Bit(k, 32) THEN 8 ELSE 0)
    + (IF Bit(k, 64) THEN 8 ELSE 0) + (IF Bit(k, 128) THEN 8 ELSE 0)
    + (IF Bit(k, 256) THEN 16 ELSE 0)

\* C10: under a format mask with the sign bit clear and the Position and
\* TexCoord bits set, a decoded vertex has advanced the cursor by the sum of
\* the widths of the blocks whose bits are set, which is what
\* calc_vertex_size returns (20 for mask 0b10001), and the vertex section
\* spans vertex_count times as many bytes.
C10_VertexAdvanceIsCalcSize ==
    LET k == mesh.vertex_type
    IN  (k[1] < 32768 /\ Bit(k, 1) /\ Bit(k, 16)) =>
            /\ pc = "v_push" =>
                  /\ pos - at.vertex = WidthSum(k)
                  /\ pos - at.vertex = mesh.size
                  /\ k = <<0, 17>> => pos - at.vertex = 20
            /\ pc = "material_info_count" =>
                  /\ mesh.vertex_count = <<0, Len(mesh.vertices)>>
                  /\ pos - at.vsection = Len(mesh.vertices) * mesh.size

\* a vertex of a mesh with mask 0b10001 has been decoded from 20 bytes
C10_Witness ==
    /\ pc = "v_push"
    /\ mesh.vertex_type = <<0, 17>>
    /\ pos - at.vertex = 20
    /\ Len(mesh.vertices) = 1

====
